---- MODULE Spec2Model ----
(***************************************************************************)
(* Offline-first synchronisation of the Maniway pass maker.                *)
(*                                                                         *)
(*   server  : the MongoDB "passes" collection and the three handlers that *)
(*             mutate it: POST /api/sync (batch reconciliation),           *)
(*             PATCH /api/passes/status and PUT /api/passes/update.        *)
(*             A handler is a thread that suspends at every await of a     *)
(*             database call, so findOne and updateOne are separate steps. *)
(*   device  : the Dexie pendingOps table, the invocations of              *)
(*             syncPendingOperations (drain passes) and their triggers.    *)
(*                                                                         *)
(* Timestamps are millisecond instants.  A Date sent as JSON is an ISO     *)
(* string with millisecond precision and new Date(string) restores the     *)
(* same instant, so a timestamp is carried as its integer instant.         *)
(***************************************************************************)
EXTENDS Integers, Sequences, FiniteSets, TLC

\* ---------------------------------------------------------------- bounds
MaxTime == 2
MaxBatch == 2
MaxOps == 2
MaxFaults == 1
MaxSeqRun == 40
MaxSeqDigits == 6
MaxCount == 2
MaxStored == 4

Times == 0..MaxTime
NoDate == -1

\* ------------------------------------------------------------- constants
MAX_RETRIES == 3
PassIdWidth == 4
FirstOpId == 4

StoredIds == {"P1", "P2"}
MissingId == "PX"
PassIds == StoredIds \cup {MissingId}
Slots == {1, 2}
ManualSlot == CHOOSE s \in Slots : \A t \in Slots : s <= t
AutoSlots == Slots \ {ManualSlot}
DevicePassIds == {"P1"}
Visitors == {"a", "b"}
Statuses == {"unused", "used"}
UpdateTypes == {"update-pass", "update-status"}
CreateTypes == {"create-pass", "create-event"}

Max2(a, b) == IF a >= b THEN a ELSE b

VARIABLES
    passes,      \* server: passId -> pass document
    req,         \* server: slot -> the HTTP request being handled for that slot
    applied,     \* history: passId -> the queued operation written last / the newest written
    pendingOps,  \* device: id -> PendingOperation (the Dexie table)
    nextId,      \* device: next auto-increment key of pendingOps
    drain,       \* device: slot -> invocation of syncPendingOperations
    dispatched,  \* history: id -> number of times the operation was dispatched
    online,      \* device: navigator.onLine
    listeners,   \* device: number of 'online' listeners added by setupAutoSync
    faults,      \* device: number of calls of the pendingOps table that were rejected
    cache,       \* device: passId -> the pass in the passes table of the device
    page         \* device: the handler of the verification page that is running

serverVars == <<passes, req, applied>>
deviceVars ==
    <<pendingOps, nextId, drain, dispatched, online, listeners, faults, cache, page>>
vars == <<passes, req, applied, pendingOps, nextId, drain, dispatched, online, listeners,
          faults, cache, page>>

\* ================================================================ server
NoOp == [id |-> 0, type |-> "none", passId |-> "", payload |-> "", createdAt |-> NoDate]

\* An HTTP request being handled.  op is the operation the handler is working on.
\* Of the operation it handled last the request keeps a record: verdict, what the
\* handler decided; stamp, the operation's createdAt; seen, the updatedAt that findOne
\* returned for it.  Of a batch it keeps the places of the operations whose pass was
\* not found (missing), the number of create operations the client sent (creates),
\* the number of operations the handler refused as unsupported (rejected) and the
\* place of the envelope of the body that is not well formed (bad, 0 if there is none).
IdleReq ==
    [kind |-> "none", pc |-> "idle", dev |-> FALSE, n |-> 0, i |-> 0, op |-> NoOp,
     seen |-> NoDate, stamp |-> NoDate, verdict |-> "none", now |-> NoDate,
     processed |-> 0, failed |-> 0, errors |-> <<>>, success |-> TRUE, code |-> 0,
     missing |-> <<>>, rejected |-> 0, creates |-> 0, bad |-> 0]

\* A pass as create-batch stores it (auth.ts:226-234): createdAt and updatedAt are the
\* time of the batch, which is time 0 here.
NewPass ==
    [status |-> "unused", usedAt |-> NoDate, createdAt |-> 0, updatedAt |-> 0,
     visitor |-> ""]

\* the conflict test with ties given to the server
ServerIsNewerOrEqual(currentTimestamp, opTimestamp) == currentTimestamp >= opTimestamp

\* route.ts:100 and :142, the conflict test `currentTimestamp > opTimestamp`
ServerIsNewer(currentTimestamp, opTimestamp) == currentTimestamp > opTimestamp

\* the stored document is replaced by a new one that holds the visitor fields
UpdatePassReplaces(p, op) == [NewPass EXCEPT !.visitor = op.payload, !.updatedAt = op.createdAt]

\* route.ts:106-116, the $set of processUpdatePass
UpdatePassSet(p, op) == [p EXCEPT !.visitor = op.payload, !.updatedAt = op.createdAt]

\* the updateData of processUpdateStatus with usedAt taken from the stored document's
\* timestamp instead of the operation's
UpdateStatusSetFromStored(p, op) ==
    [p EXCEPT !.status = op.payload,
              !.updatedAt = op.createdAt,
              !.usedAt = IF op.payload = "used" THEN p.updatedAt ELSE NoDate]

\* route.ts:149-158, the updateData of processUpdateStatus
UpdateStatusSet(p, op) ==
    [p EXCEPT !.status = op.payload,
              !.updatedAt = op.createdAt,
              !.usedAt = IF op.payload = "used" THEN op.createdAt ELSE NoDate]

\* the $set of the operation's type
OpSet(p, op) ==
    IF op.type = "update-pass" THEN UpdatePassSet(p, op) ELSE UpdateStatusSet(p, op)

\* history of the writes of queued operations to a pass: createdAt and key of the
\* operation written last, and of the newest operation written so far
Note(a, r, t) ==
    IF r.dev
    THEN [a EXCEPT ![r.op.passId] =
            [last |-> t, lastId |-> r.op.id,
             max |-> Max2(@.max, t), maxId |-> IF t > @.max THEN r.op.id ELSE @.maxId]]
    ELSE a

\* the client-local id of the i-th envelope of a batch
EnvelopeId(i) == FirstOpId + i

\* The envelopes a client can put at place i of a batch.
BatchOps(i) ==
    { [id |-> EnvelopeId(i), type |-> "update-pass", passId |-> pid, payload |-> pl,
       createdAt |-> t, retryCount |-> 0] : pid \in PassIds, pl \in Visitors, t \in Times }
    \cup
    { [id |-> EnvelopeId(i), type |-> "update-status", passId |-> pid, payload |-> pl,
       createdAt |-> t, retryCount |-> 0] : pid \in PassIds, pl \in Statuses, t \in Times }
    \cup
    { [id |-> EnvelopeId(i), type |-> ty, passId |-> MissingId, payload |-> "",
       createdAt |-> 0, retryCount |-> 0] : ty \in CreateTypes }

\* Envelopes that are not well formed, for place i of a batch: one of an unknown
\* type, and one for each required key with that key left out.
MalformedOps(i) ==
    LET ok == [id |-> EnvelopeId(i), type |-> "update-status", passId |-> "P1",
               payload |-> "used", createdAt |-> 0, retryCount |-> 0] IN
    { [ok EXCEPT !.type = "delete-pass"] }
    \cup { [f \in DOMAIN ok \ {k} |-> ok[f]] : k \in {"id", "type", "createdAt", "retryCount"} }

\* every envelope is accepted
SchemaAcceptsAll(e) == TRUE

\* route.ts:6-14, SyncOperationSchema: id and retryCount are numbers, type is one of
\* the four types, createdAt is present; passId, eventId and payload may be absent
SchemaAccepts(e) ==
    /\ {"id", "type", "createdAt", "retryCount"} \subseteq DOMAIN e
    /\ e.id \in Int /\ e.retryCount \in Int
    /\ e.type \in UpdateTypes \cup CreateTypes

\* a failure that leaves the loop instead of going to the next operation
OpFailedAborts(r, op, why) ==
    [r EXCEPT !.failed = @ + 1, !.errors = Append(@, op.id), !.i = r.n + 1,
              !.missing = IF why = "notfound" THEN Append(@, r.i) ELSE @,
              !.rejected = IF why = "reject" THEN @ + 1 ELSE @,
              !.op = NoOp, !.seen = NoDate, !.stamp = NoDate, !.verdict = why,
              !.pc = "next"]

\* one iteration of the loop of POST ends in its catch block: route.ts:64-70
OpFailed(r, op, why) ==
    [r EXCEPT !.failed = @ + 1, !.errors = Append(@, op.id), !.i = @ + 1,
              !.missing = IF why = "notfound" THEN Append(@, r.i) ELSE @,
              !.rejected = IF why = "reject" THEN @ + 1 ELSE @,
              !.op = NoOp, !.seen = NoDate, !.stamp = NoDate, !.verdict = why,
              !.pc = "next"]

\* one iteration of the loop of POST ends normally: route.ts:63
OpProcessed(r, verdict) ==
    [r EXCEPT !.processed = @ + 1, !.i = @ + 1, !.op = NoOp, !.verdict = verdict,
              !.pc = "next"]

\* a skipped operation is counted as failed
SkipCountsFailure(r, op, currentTimestamp) ==
    [OpFailed(r, op, "skip") EXCEPT !.stamp = op.createdAt, !.seen = currentTimestamp]

\* route.ts:100-104, 142-146: the stored pass is newer, the function returns before
\* updateOne and the iteration ends normally
Skip(r, op, currentTimestamp) ==
    OpProcessed([r EXCEPT !.stamp = op.createdAt, !.seen = currentTimestamp], "skip")

\* only create-pass is refused
RejectsCreatePassOnly(type) == type = "create-pass"

\* route.ts:50-51, 56-57, 123-127, 170-174: processCreatePass and processCreateEvent
\* throw before any database call
Rejects(type) == type \in CreateTypes

\* a request that ended with an HTTP status
Answered(r, code) == [r EXCEPT !.code = code, !.op = NoOp, !.pc = "done"]

\* POST /api/sync: a request with n envelopes arrives and its body is validated
\* (route.ts:23-41).  Either every envelope is one of BatchOps, or the envelope at
\* place k is one of MalformedOps; a body with an envelope that the schema does not
\* accept is answered 400 before the loop.
PostSync(s) ==
    /\ req[s].pc = "idle"
    /\ \E n \in 0..MaxBatch :
         LET r == [IdleReq EXCEPT !.kind = "sync", !.n = n] IN
         \/ req' = [req EXCEPT ![s] = [r EXCEPT !.pc = "next", !.i = 1]]
         \/ \E k \in 1..n : \E e \in MalformedOps(k) :
              req' = [req EXCEPT ![s] =
                        IF SchemaAccepts(e)
                        THEN [r EXCEPT !.bad = k, !.pc = "next", !.i = 1]
                        ELSE Answered([r EXCEPT !.bad = k], 400)]
    /\ UNCHANGED <<passes, applied, deviceVars>>

\* POST /api/sync, one operation up to the await of updateOne: the switch, findOne,
\* the not-found test and the conflict test (route.ts:44-61, 87-104, 123-146, 170-174).
SyncFetch(s) ==
    /\ req[s].kind = "sync" /\ req[s].pc = "next" /\ req[s].i <= req[s].n
    /\ \E op \in BatchOps(req[s].i) :
         LET r == [req[s] EXCEPT !.creates = IF op.type \in CreateTypes THEN @ + 1 ELSE @] IN
         req' = [req EXCEPT ![s] =
                   IF Rejects(op.type) THEN OpFailed(r, op, "reject")
                   ELSE IF op.passId \notin DOMAIN passes THEN OpFailed(r, op, "notfound")
                   ELSE IF ServerIsNewer(passes[op.passId].updatedAt, op.createdAt)
                        THEN Skip(r, op, passes[op.passId].updatedAt)
                   ELSE [r EXCEPT !.op = op, !.stamp = op.createdAt,
                                  !.seen = passes[op.passId].updatedAt,
                                  !.verdict = "apply", !.pc = "write"]]
    /\ UNCHANGED <<passes, applied, deviceVars>>

\* POST /api/sync, the updateOne of the operation and its matchedCount test
\* (route.ts:108-120, 160-167).
SyncWrite(s) ==
    /\ req[s].kind = "sync" /\ req[s].pc = "write"
    /\ LET op == req[s].op IN
         IF op.passId \in DOMAIN passes
         THEN /\ passes' = [passes EXCEPT ![op.passId] = OpSet(@, op)]
              /\ req' = [req EXCEPT ![s] = OpProcessed(@, "apply")]
         ELSE /\ passes' = passes
              /\ req' = [req EXCEPT ![s] = OpFailed(@, op, "notfound")]
    /\ UNCHANGED <<applied, deviceVars>>

\* POST /api/sync, after the loop: route.ts:73-75
SyncRespond(s) ==
    /\ req[s].kind = "sync" /\ req[s].pc = "next" /\ req[s].i > req[s].n
    /\ req' = [req EXCEPT ![s].success = (req[s].failed = 0), ![s].code = 200,
                          ![s].pc = "done"]
    /\ UNCHANGED <<passes, applied, deviceVars>>

\* PATCH /api/passes/status up to the await of updateOne: the session check, findOne,
\* the not-found test, the duplicate check-in test and the reading of the clock
\* (check-visitor-cards/route.ts:57-127).  t is what new Date() returns.
StatusFetch(r, op, authed, t) ==
    LET r1 == [r EXCEPT !.kind = "status", !.op = op, !.stamp = op.createdAt] IN
    IF ~authed THEN Answered(r1, 401)
    ELSE IF op.passId \notin DOMAIN passes THEN Answered(r1, 404)
    ELSE IF passes[op.passId].status = "used" /\ op.payload = "used"
         THEN Answered([r1 EXCEPT !.verdict = "duplicate"], 409)
    ELSE [r1 EXCEPT !.seen = passes[op.passId].updatedAt, !.verdict = "apply",
                    !.now = t, !.pc = "write"]

\* check-visitor-cards/route.ts:116-127, the updateData of PATCH
StatusSet(p, status, now) ==
    [p EXCEPT !.status = status,
              !.updatedAt = now,
              !.usedAt = IF status = "used" THEN now ELSE NoDate]

\* PATCH /api/passes/status, the updateOne and its modifiedCount test
\* (check-visitor-cards/route.ts:129-154).  A $set that changes no field modifies
\* no document.
StatusWrite(s) ==
    /\ req[s].kind = "status" /\ req[s].pc = "write"
    /\ LET op == req[s].op
           new == StatusSet(passes[op.passId], op.payload, req[s].now) IN
         IF op.passId \in DOMAIN passes /\ new # passes[op.passId]
         THEN /\ passes' = [passes EXCEPT ![op.passId] = new]
              /\ applied' = Note(applied, req[s], op.createdAt)
              /\ req' = [req EXCEPT ![s] = Answered(@, 200)]
         ELSE /\ UNCHANGED <<passes, applied>>
              /\ req' = [req EXCEPT ![s] = Answered(@, 500)]
    /\ UNCHANGED deviceVars

\* PUT /api/passes/update up to the await of updateOne: findOne, the not-found test and
\* the reading of the clock (update/route.ts:17-50).
UpdateFetch(r, op, t) ==
    LET r1 == [r EXCEPT !.kind = "update", !.op = op, !.stamp = op.createdAt] IN
    IF op.passId \notin DOMAIN passes THEN Answered(r1, 404)
    ELSE [r1 EXCEPT !.seen = passes[op.passId].updatedAt, !.verdict = "apply",
                    !.now = t, !.pc = "write"]

\* update/route.ts:44-50, the $set of PUT
UpdateSet(p, visitor, now) == [p EXCEPT !.visitor = visitor, !.updatedAt = now]

\* PUT /api/passes/update, the updateOne and its matchedCount test (update/route.ts:41-76)
UpdateWrite(s) ==
    /\ req[s].kind = "update" /\ req[s].pc = "write"
    /\ LET op == req[s].op IN
         IF op.passId \in DOMAIN passes
         THEN /\ passes' = [passes EXCEPT ![op.passId] = UpdateSet(@, op.payload, req[s].now)]
              /\ applied' = Note(applied, req[s], op.createdAt)
              /\ req' = [req EXCEPT ![s] = Answered(@, 200)]
         ELSE /\ UNCHANGED <<passes, applied>>
              /\ req' = [req EXCEPT ![s] = Answered(@, 404)]
    /\ UNCHANGED deviceVars

\* ------------------------------------------- clients other than the queue
\* A client sends PATCH /api/passes/status.
ClientPatch(s) ==
    /\ req[s].pc = "idle"
    /\ \E pid \in PassIds, st \in Statuses, authed \in BOOLEAN, t \in Times :
         req' = [req EXCEPT ![s] =
                   StatusFetch(@, [NoOp EXCEPT !.type = "update-status", !.passId = pid,
                                               !.payload = st], authed, t)]
    /\ UNCHANGED <<passes, applied, deviceVars>>

\* A client sends PUT /api/passes/update.
ClientPut(s) ==
    /\ req[s].pc = "idle"
    /\ \E pid \in PassIds, v \in Visitors, t \in Times :
         req' = [req EXCEPT ![s] =
                   UpdateFetch(@, [NoOp EXCEPT !.type = "update-pass", !.passId = pid,
                                               !.payload = v], t)]
    /\ UNCHANGED <<passes, applied, deviceVars>>

\* The client takes the response.
ClientReceive(s) ==
    /\ req[s].pc = "done" /\ ~req[s].dev
    /\ req' = [req EXCEPT ![s] = IdleReq]
    /\ UNCHANGED <<passes, applied, deviceVars>>

\* processUpdatePass / processUpdateStatus run alone on the stored pass p: the
\* conflict test, then the $set (route.ts:87-121, 129-168)
ProcessOp(p, op) ==
    IF ServerIsNewer(p.updatedAt, op.createdAt) THEN p ELSE OpSet(p, op)

\* the update envelopes that target the stored pass pid
UpdatesOf(pid) == { op \in BatchOps(1) : op.type \in UpdateTypes /\ op.passId = pid }

\* ----------------------------------------------------------- pass ids
\* A string is the sequence of its characters.
DigitChars == <<"0", "1", "2", "3", "4", "5", "6", "7", "8", "9">>

\* Prefixes of pass ids, and the sequence numbers tried: a run from 1 and the
\* numbers around every power of ten.
Prefixes == {<<"V", "I", "S">>, <<"A">>, <<"E", "V", "E", "N", "T">>}
SeqNumbers ==
    (1..MaxSeqRun) \cup UNION { {10^k - 1, 10^k, 10^k + 1} : k \in 1..MaxSeqDigits }

\* Number.prototype.toString of a positive integer: its decimal digits
RECURSIVE NumberToString(_)
NumberToString(n) ==
    IF n < 10 THEN <<DigitChars[n + 1]>>
    ELSE Append(NumberToString(n \div 10), DigitChars[(n % 10) + 1])

\* the last targetLength characters only
PadStartTruncates(str, targetLength, padChar) ==
    LET padded == [i \in 1..targetLength |-> padChar] \o str IN
    SubSeq(padded, Len(padded) - targetLength + 1, Len(padded))

\* String.prototype.padStart with a one-character pad string: a string of
\* targetLength or more characters is returned as it is
PadStart(str, targetLength, padChar) ==
    IF Len(str) >= targetLength THEN str
    ELSE [i \in 1..(targetLength - Len(str)) |-> padChar] \o str

\* auth.ts:140-143
GeneratePassId(prefix, sequence) ==
    prefix \o <<"-">> \o PadStart(NumberToString(sequence), PassIdWidth, "0")

\* auth.ts:184, parseInt(sequencePart, 10) of a string of decimal digits
RECURSIVE ParseInt(_)
ParseInt(str) ==
    IF str = <<>> THEN 0
    ELSE 10 * ParseInt(SubSeq(str, 1, Len(str) - 1))
         + (CHOOSE d \in 0..9 : DigitChars[d + 1] = str[Len(str)])

\* The characters of pass ids in the order of their character codes, which is the
\* order in which strings are compared.
Alphabet ==
    <<"-", "0", "1", "2", "3", "4", "5", "6", "7", "8", "9", "A", "E", "I", "N", "S", "T", "V">>
CharRank(c) == CHOOSE i \in 1..Len(Alphabet) : Alphabet[i] = c

\* a < b as strings: the first character that differs decides, and a proper prefix
\* comes first
RECURSIVE StringBefore(_, _)
StringBefore(a, b) ==
    IF a = <<>> THEN b # <<>>
    ELSE IF b = <<>> THEN FALSE
    ELSE IF Head(a) = Head(b) THEN StringBefore(Tail(a), Tail(b))
    ELSE CharRank(Head(a)) < CharRank(Head(b))

\* auth.ts:173, the filter { passId: { $regex: `^${prefix}-` } }
MatchesPrefix(id, prefix) ==
    LET start == prefix \o <<"-">> IN
    Len(id) >= Len(start) /\ SubSeq(id, 1, Len(start)) = start

\* auth.ts:183, lastPassId.split('-')[1]: what stands between the first hyphen and
\* the next one (or the end)
SequencePart(id) ==
    LET hyphens == { i \in 1..Len(id) : id[i] = "-" }
        first == CHOOSE i \in hyphens : \A j \in hyphens : i <= j
        later == { i \in hyphens : i > first }
        last == IF later = {} THEN Len(id)
                ELSE (CHOOSE i \in later : \A j \in later : i <= j) - 1 IN
    SubSeq(id, first + 1, last)

\* auth.ts:171-176, find(...).sort({ passId: -1 }).limit(1): the pass whose passId is
\* the last in string order
LastPass(found) == CHOOSE a \in found : \A b \in found : b = a \/ StringBefore(b, a)

\* auth.ts:166-187, getNextSequence
GetNextSequence(prefix) ==
    LET found == { id \in DOMAIN passes : MatchesPrefix(id, prefix) } IN
    IF found = {} THEN 1
    ELSE ParseInt(SequencePart(LastPass(found))) + 1

\* The prefixes of the batches, the most passes of one batch, the most passes the
\* store holds, and the sequence numbers of the passes that visitor cards are saved
\* with: the first one and the ones where the number outgrows its padded width.
BatchPrefixes == { <<"V", "I", "S">>, <<"A">> }
CardSeqs == { 1, 10^PassIdWidth - 1, 10^PassIdWidth }

\* No batch is being generated.
IdleBatch ==
    [kind |-> "batch", pc |-> "idle", prefix |-> <<>>, count |-> 0, before |-> {},
     start |-> 0, threw |-> FALSE]

\* POST /api/passes/save-visitor-cards stores the passes of the body whose passId is
\* not stored yet (save-visitor-cards/route.ts:5-60); the body here holds one pass.
SaveVisitorCards ==
    /\ req[1].pc = "idle"
    /\ Cardinality(DOMAIN passes) < MaxStored
    /\ \E prefix \in BatchPrefixes, n \in CardSeqs :
         LET id == GeneratePassId(prefix, n) IN
         /\ id \notin DOMAIN passes
         /\ passes' = [p \in DOMAIN passes \cup {id} |->
                         IF p = id THEN NewPass ELSE passes[p]]
    /\ UNCHANGED <<req, applied, deviceVars>>

\* generatePassBatch with a valid prefix and count (auth.ts:194-253): the ids are
\* made from getNextSequence on; if one of them is stored already the function
\* throws 'Duplicate pass IDs detected', otherwise the passes are inserted.
GeneratePassBatch ==
    /\ req[1].pc = "idle"
    /\ \E prefix \in BatchPrefixes, count \in 1..MaxCount :
         LET startSequence == GetNextSequence(prefix)
             passIds == { GeneratePassId(prefix, startSequence + i) : i \in 0..(count - 1) }
             existingPasses == passIds \cap DOMAIN passes IN
         /\ Cardinality(DOMAIN passes) + count <= MaxStored
         /\ req' = [req EXCEPT ![1] =
                      [IdleBatch EXCEPT !.pc = "done", !.prefix = prefix, !.count = count,
                                        !.before = DOMAIN passes, !.start = startSequence,
                                        !.threw = (existingPasses # {})]]
         /\ passes' = IF existingPasses # {} THEN passes
                       ELSE [p \in DOMAIN passes \cup passIds |->
                               IF p \in passIds THEN NewPass ELSE passes[p]]
    /\ UNCHANGED <<applied, deviceVars>>

\* The caller of generatePassBatch has its result.
BatchReturn ==
    /\ req[1].kind = "batch" /\ req[1].pc = "done"
    /\ req' = [req EXCEPT ![1] = IdleBatch]
    /\ UNCHANGED <<passes, applied, deviceVars>>

\* generatePassBatch makes the id of one pass of the batch (auth.ts:220-222).
GenerateId ==
    /\ req[1].kind = "create-batch" /\ req[1].pc = "idle"
    /\ req' = [req EXCEPT ![1].passId = GeneratePassId(req[1].prefix, req[1].sequence),
                          ![1].pc = "done"]
    /\ UNCHANGED <<passes, applied, deviceVars>>

\* ================================================================ device
\* An invocation of syncPendingOperations with its SyncResult (sync.ts:28-33).  threw
\* records that the pass ended in the outer catch; announced, kept by the idle slot,
\* that the listener dispatched 'sync-complete' after its last pass.
IdleDrain ==
    [pc |-> "idle", auto |-> FALSE, snapshot |-> <<>>, i |-> 0,
     success |-> TRUE, synced |-> 0, failed |-> 0, errors |-> <<>>,
     threw |-> FALSE, announced |-> FALSE]

\* the order of the primary key alone
KeyBefore(a, b) == a <= b

\* The order of the createdAt index of pendingOps (dexie.ts:34): by key, and among
\* equal keys by primary key.
IndexBefore(a, b) ==
    \/ pendingOps[a].createdAt < pendingOps[b].createdAt
    \/ pendingOps[a].createdAt = pendingOps[b].createdAt /\ a <= b

\* The records of `ids` in index order, each with its key.
RECURSIVE InIndexOrder(_)
InIndexOrder(ids) ==
    IF ids = {} THEN <<>>
    ELSE LET first == CHOOSE a \in ids : \A b \in ids : IndexBefore(a, b) IN
         <<[id |-> first, type |-> pendingOps[first].type,
            passId |-> pendingOps[first].passId, payload |-> pendingOps[first].payload,
            createdAt |-> pendingOps[first].createdAt,
            retryCount |-> pendingOps[first].retryCount]>>
         \o InIndexOrder(ids \ {first})

\* dexie.ts:73-75, db.pendingOps.orderBy('createdAt').toArray()
GetPendingOperations == InIndexOrder(DOMAIN pendingOps)

\* the table is emptied
RemoveClearsTable(q, id) == [k \in {} |-> q[k]]

\* dexie.ts:81-83, db.pendingOps.delete(id): no effect when the key is absent
RemovePendingOperation(q, id) == [k \in DOMAIN q \ {id} |-> q[k]]

\* the new retry count is not stored
RetryCountNotStored(q, id, retryCount) == q

\* dexie.ts:85-87, db.pendingOps.update(id, {retryCount}): no effect when the key is absent
UpdatePendingOperationRetryCount(q, id, retryCount) ==
    IF id \in DOMAIN q THEN [q EXCEPT ![id].retryCount = retryCount] ELSE q

\* dexie.ts:69-71, db.pendingOps.add(operation) with the auto-incremented key
QueueOperation(type, pid, payload, t) ==
    /\ pendingOps' = [k \in DOMAIN pendingOps \cup {nextId} |->
                        IF k = nextId
                        THEN [type |-> type, passId |-> pid, payload |-> payload,
                              createdAt |-> t, retryCount |-> 0]
                        ELSE pendingOps[k]]
    /\ nextId' = nextId + 1
    /\ dispatched' = [k \in DOMAIN dispatched \cup {nextId} |->
                        IF k = nextId THEN 0 ELSE dispatched[k]]

\* A pass as the device keeps it in its passes table (dexie.ts:33, 44-46), as far as
\* the handlers of the page change it: its status and its visitor fields.
CachedNewPass == [status |-> "unused", visitor |-> ""]

\* No handler of the verification page is running.  While one runs, id is the key
\* of the operation it queued, and pass the pass it is going to put into the cache.
IdlePage == [pc |-> "idle", id |-> 0, passId |-> "", pass |-> CachedNewPass]

\* handleMarkAsUsed, offline or after a failed request, up to its second await: it
\* queues the check-in and builds the pass it will cache from the pass it shows
\* (part_001:337-351, 364-378).  t is what new Date() returns on the device.
MarkAsUsedOffline ==
    /\ nextId <= MaxOps /\ page.pc = "idle"
    /\ \E pid \in DevicePassIds, t \in Times :
         /\ QueueOperation("update-status", pid, "used", t)
         /\ page' = [pc |-> "caching", id |-> nextId, passId |-> pid,
                     pass |-> [cache[pid] EXCEPT !.status = "used"]]
    /\ UNCHANGED <<serverVars, drain, online, listeners, faults, cache>>

\* handleSubmit, offline or after a failed request, up to its second await: it queues
\* the visitor's form and builds the pass it will cache (part_001:463-478, 498-513).
SubmitOffline ==
    /\ nextId <= MaxOps /\ page.pc = "idle"
    /\ \E pid \in DevicePassIds, v \in Visitors, t \in Times :
         /\ QueueOperation("update-pass", pid, v, t)
         /\ page' = [pc |-> "caching", id |-> nextId, passId |-> pid,
                     pass |-> [cache[pid] EXCEPT !.visitor = v]]
    /\ UNCHANGED <<serverVars, drain, online, listeners, faults, cache>>

\* the rest of either handler: cachePass(updatedPass) puts the pass into the passes
\* table of the device (part_001:354-355, 381-382, 479-480, 514-515; dexie.ts:44-46)
CachePass ==
    /\ page.pc = "caching"
    /\ cache' = [cache EXCEPT ![page.passId] = page.pass]
    /\ page' = IdlePage
    /\ UNCHANGED <<serverVars, pendingOps, nextId, drain, dispatched, online, listeners,
                   faults>>

\* the outer catch returns the result without touching success
CrashKeepsSuccess(d) == [d EXCEPT !.threw = TRUE, !.pc = "done"]

\* sync.ts:87-91, the outer catch: a rejected call of the pendingOps table ends the
\* pass with success = false and the counts reached so far
Crash(d) == [d EXCEPT !.success = FALSE, !.threw = TRUE, !.pc = "done"]

\* an empty queue is reported as a pass that did not succeed
StartedEmptyIsFailure(auto, readOk) ==
    LET ops == GetPendingOperations IN
    IF ~readOk THEN Crash([IdleDrain EXCEPT !.auto = auto])
    ELSE [IdleDrain EXCEPT !.auto = auto, !.snapshot = ops,
                           !.success = (ops # <<>>),
                           !.i = IF ops = <<>> THEN 0 ELSE 1,
                           !.pc = IF ops = <<>> THEN "done" ELSE "sending"]

\* sync.ts:28-47, the start of syncPendingOperations: the queue is read; an empty
\* queue returns the initial result; a read that is rejected ends in the outer catch.
Started(auto, readOk) ==
    LET ops == GetPendingOperations IN
    IF ~readOk THEN Crash([IdleDrain EXCEPT !.auto = auto])
    ELSE [IdleDrain EXCEPT !.auto = auto, !.snapshot = ops,
                           !.i = IF ops = <<>> THEN 0 ELSE 1,
                           !.pc = IF ops = <<>> THEN "done" ELSE "sending"]

\* the loop ends: every operation of the snapshot has been handled
AdvanceStops(d) ==
    [d EXCEPT !.i = Len(d.snapshot) + 1, !.success = (d.failed = 0), !.pc = "done"]

\* sync.ts:45, 82-86: the loop goes to the next operation, or ends and sets success
Advance(d) ==
    IF d.i < Len(d.snapshot) THEN [d EXCEPT !.i = @ + 1, !.pc = "sending"]
    ELSE [d EXCEPT !.i = @ + 1, !.success = (d.failed = 0), !.pc = "done"]

\* sync.ts:58, whether a failed operation is kept for another attempt
Retryable(retryCount) == retryCount < MAX_RETRIES

\* sync.ts:54-79, the catch block of one operation, entered after f rejected calls of
\* the table: the failure is counted, then the retry count is stored or the operation
\* removed; if that call is rejected the outer catch ends the pass.
Caught(s, f) ==
    LET op == drain[s].snapshot[drain[s].i]
        retryable == Retryable(op.retryCount)
        d == [drain[s] EXCEPT !.failed = @ + 1,
                              !.errors = Append(@, [operationId |-> op.id,
                                                    retryable |-> retryable])] IN
    \/ /\ pendingOps' = IF retryable
                        THEN UpdatePendingOperationRetryCount(pendingOps, op.id,
                                                              op.retryCount + 1)
                        ELSE RemovePendingOperation(pendingOps, op.id)
       /\ drain' = [drain EXCEPT ![s] = Advance(d)]
       /\ faults' = f
    \/ /\ f < MaxFaults
       /\ pendingOps' = pendingOps
       /\ drain' = [drain EXCEPT ![s] = Crash(d)]
       /\ faults' = f + 1

\* sync.ts:54, processSingleOperation threw
Fail(s) == Caught(s, faults)

\* sync.ts:49-51, the operation was sent: it is removed and counted.  The removal is
\* inside the inner try, so a rejected removal is caught as a failure of the operation.
Succeed(s) ==
    LET op == drain[s].snapshot[drain[s].i] IN
    \/ /\ pendingOps' = RemovePendingOperation(pendingOps, op.id)
       /\ drain' = [drain EXCEPT ![s] = Advance([@ EXCEPT !.synced = @ + 1])]
       /\ faults' = faults
    \/ /\ faults < MaxFaults
       /\ Caught(s, faults + 1)

\* setupAutoSync adds an 'online' listener (sync.ts:205-225), called when the dashboard
\* mounts (part_003:61).  The listener is never removed.
SetupAutoSync ==
    /\ listeners < Cardinality(AutoSlots)
    /\ listeners' = listeners + 1
    /\ UNCHANGED <<serverVars, pendingOps, nextId, drain, dispatched, online, faults, cache, page>>

\* The connection is lost.
GoOffline ==
    /\ online
    /\ online' = FALSE
    /\ UNCHANGED <<serverVars, pendingOps, nextId, drain, dispatched, listeners, faults, cache, page>>

\* the slot in which the pass started by the k-th listener runs
ListenerSlot(k) == Cardinality(Slots) + 1 - k

\* The connection returns: the 'online' event calls every listener, and each calls
\* syncPendingOperations (sync.ts:208-211).
GoOnline ==
    LET used == { ListenerSlot(k) : k \in 1..listeners } IN
    /\ ~online
    /\ \A s \in used : drain[s].pc = "idle"
    /\ online' = TRUE
    /\ \E bad \in SUBSET used :
         /\ faults + Cardinality(bad) <= MaxFaults
         /\ faults' = faults + Cardinality(bad)
         /\ drain' = [s \in Slots |->
                        IF s \in used THEN Started(TRUE, s \notin bad) ELSE drain[s]]
    /\ UNCHANGED <<serverVars, pendingOps, nextId, dispatched, listeners, cache, page>>

\* the dashboard never shows offline
NeverShowsOffline == FALSE

\* part_003:53, 62-70: the dashboard's offline flag follows the 'online' and 'offline'
\* events
ShowsOffline == ~online

\* handleManualSync (part_003:108-145): when the dashboard shows offline it sets the
\* message 'Cannot sync while offline' and returns; otherwise it calls
\* triggerManualSync (sync.ts:197-200).  Its button is disabled while it runs
\* (part_003:272).  The pending count it tests is the one last shown, which may be
\* out of date either way.
ManualSync ==
    /\ listeners > 0 /\ drain[ManualSlot].pc = "idle"
    /\ IF ShowsOffline
       THEN /\ drain' = [drain EXCEPT ![ManualSlot] = [IdleDrain EXCEPT !.pc = "refused"]]
            /\ faults' = faults
       ELSE \E ok \in BOOLEAN :
              /\ ok \/ faults < MaxFaults
              /\ faults' = IF ok THEN faults ELSE faults + 1
              /\ drain' = [drain EXCEPT ![ManualSlot] = Started(FALSE, ok)]
    /\ UNCHANGED <<serverVars, pendingOps, nextId, dispatched, online, listeners, cache, page>>

\* The count of dispatches of an operation is kept up to the most that the retry limit
\* and the rejected table calls allow, plus one.
DispatchCap == MAX_RETRIES + MaxFaults + 2

\* sync.ts:47, 97-174: processSingleOperation sends the operation.  The fetch fails
\* (always when offline), or the request reaches its route, which runs to its first
\* database write.  The body carries passId and the payload; id and createdAt stay
\* on the device and are kept with the request only for the record of what was sent.
Dispatch(s) ==
    /\ drain[s].pc = "sending"
    /\ LET op == drain[s].snapshot[drain[s].i]
           sent == [id |-> op.id, type |-> op.type, passId |-> op.passId,
                    payload |-> op.payload, createdAt |-> op.createdAt]
           r == [IdleReq EXCEPT !.dev = TRUE] IN
         /\ dispatched' = [dispatched EXCEPT ![op.id] = IF @ < DispatchCap THEN @ + 1 ELSE @]
         /\ \/ /\ Fail(s)
               /\ UNCHANGED req
            \/ /\ online
               /\ faults' = faults
               /\ drain' = [drain EXCEPT ![s].pc = "waiting"]
               /\ \E t \in Times, authed \in BOOLEAN :
                    req' = [req EXCEPT ![s] =
                              IF op.type = "update-status"
                              THEN StatusFetch(r, sent, authed, t)
                              ELSE UpdateFetch(r, sent, t)]
               /\ UNCHANGED pendingOps
    /\ UNCHANGED <<passes, applied, nextId, online, listeners, cache, page>>

\* sync.ts:131-134, 170-173: the response arrives; it is ok or the operation fails.
Receive(s) ==
    /\ drain[s].pc = "waiting" /\ req[s].pc = "done"
    /\ IF req[s].code = 200 THEN Succeed(s) ELSE Fail(s)
    /\ req' = [req EXCEPT ![s] = IdleReq]
    /\ UNCHANGED <<passes, applied, nextId, dispatched, online, listeners, cache, page>>

\* syncPendingOperations has returned its result to its caller.  The listener of
\* setupAutoSync dispatches 'sync-complete' when result.synced > 0 (sync.ts:213-220);
\* handleManualSync shows its message (part_003:110-112, 127-131).
Return(s) ==
    /\ drain[s].pc \in {"done", "refused"}
    /\ drain' = [drain EXCEPT ![s] =
                   [IdleDrain EXCEPT !.announced = drain[s].auto /\ drain[s].synced > 0]]
    /\ UNCHANGED <<serverVars, pendingOps, nextId, dispatched, online, listeners, faults, cache, page>>

\* ========================================================= specifications
\* The store holds the passes of `ids`, as created; no request is being handled.
InitServer(ids) ==
    /\ passes = [p \in ids |-> NewPass]
    /\ req = [s \in Slots |-> IdleReq]
    /\ applied = [p \in ids |-> [last |-> NoDate, lastId |-> 0, max |-> NoDate, maxId |-> 0]]

InitDevice ==
    /\ pendingOps = <<>>
    /\ nextId = 1
    /\ drain = [s \in Slots |-> IdleDrain]
    /\ dispatched = <<>>
    /\ online = TRUE
    /\ listeners = 0
    /\ faults = 0
    /\ cache = [p \in DevicePassIds |-> CachedNewPass]
    /\ page = IdlePage

\* ---------------------------------------------- the making of a pass id
\* An empty store; a create-batch request is about to make the id of the pass with
\* some sequence number under some prefix.
InitPassId ==
    /\ passes = [p \in {} |-> NewPass]
    /\ applied = [p \in {} |-> NewPass]
    /\ \E prefix \in Prefixes, sequence \in SeqNumbers :
          req = [s \in Slots |->
                   IF s = 1
                   THEN [kind |-> "create-batch", pc |-> "idle", prefix |-> prefix,
                         sequence |-> sequence, passId |-> <<>>]
                   ELSE IdleReq]
    /\ InitDevice

NextPassId == GenerateId
SpecPassId == InitPassId /\ [][NextPassId]_vars

\* ------------------------------------------------- the making of batches
\* An empty store; visitor cards are saved and batches generated, one request at a
\* time.
InitPassBatch ==
    /\ passes = [p \in {} |-> NewPass]
    /\ applied = [p \in {} |-> NewPass]
    /\ req = [s \in Slots |-> IF s = 1 THEN IdleBatch ELSE IdleReq]
    /\ InitDevice

NextPassBatch ==
    \/ SaveVisitorCards
    \/ GeneratePassBatch
    \/ BatchReturn

SpecPassBatch == InitPassBatch /\ [][NextPassBatch]_vars

\* ------------------------------------- the server, one request at a time
InitBatch == InitServer(StoredIds) /\ InitDevice

NextBatch ==
    \/ PostSync(1)
    \/ SyncFetch(1)
    \/ SyncWrite(1)
    \/ SyncRespond(1)
    \/ ClientPatch(1)
    \/ StatusWrite(1)
    \/ ClientPut(1)
    \/ UpdateWrite(1)
    \/ ClientReceive(1)

SpecBatch == InitBatch /\ [][NextBatch]_vars

\* ----------------------- the server, two concurrent reconciliation requests
InitRace == InitServer({"P1"}) /\ InitDevice

NextRace ==
    \E s \in Slots :
        \/ PostSync(s)
        \/ SyncFetch(s)
        \/ SyncWrite(s)
        \/ SyncRespond(s)
        \/ ClientReceive(s)

SpecRace == InitRace /\ [][NextRace]_vars

\* ------------------------------ the server, two concurrent check-in requests
NextCheckIn ==
    \E s \in Slots :
        \/ ClientPatch(s)
        \/ StatusWrite(s)
        \/ ClientReceive(s)

SpecCheckIn == InitRace /\ [][NextCheckIn]_vars

\* --------------------------------------------------- the device and its server
DeviceStep ==
    \/ MarkAsUsedOffline
    \/ SubmitOffline
    \/ CachePass
    \/ SetupAutoSync
    \/ GoOffline
    \/ GoOnline
    \/ \E s \in Slots : Dispatch(s)
    \/ \E s \in Slots : StatusWrite(s)
    \/ \E s \in Slots : UpdateWrite(s)
    \/ \E s \in Slots : Receive(s)
    \/ \E s \in Slots : Return(s)

\* Drain passes started by the 'online' event of one listener: one pass at a time.
Init == InitServer({"P1"}) /\ InitDevice
Next == DeviceStep
Spec == Init /\ [][Next]_vars

\* The same with the 'Sync Now' button: a manual pass can overlap an automatic one.
\* The queue starts empty with earlier keys used up, so that it holds one operation
\* at most.
InitOverlap ==
    /\ InitServer({"P1"})
    /\ pendingOps = <<>>
    /\ nextId = MaxOps
    /\ drain = [s \in Slots |-> IdleDrain]
    /\ dispatched = <<>>
    /\ online = TRUE
    /\ listeners = 0
    /\ faults = 0
    /\ cache = [p \in DevicePassIds |-> CachedNewPass]
    /\ page = IdlePage

\* A further mount of the dashboard calls setupAutoSync again (part_003:52-61): one
\* more listener, the earlier ones stay.
SetupAutoSyncAgain ==
    /\ listeners >= 1 /\ listeners < Cardinality(Slots)
    /\ listeners' = listeners + 1
    /\ UNCHANGED <<serverVars, pendingOps, nextId, drain, dispatched, online, faults, cache, page>>

NextOverlap == DeviceStep \/ ManualSync
SpecOverlap == InitOverlap /\ [][NextOverlap]_vars

\* One queued operation at most, as above, where the dashboard gets mounted, the
\* connection keeps dropping and returning (so that passes keep being started), and
\* no request, answer or pass is left waiting for ever.  Rejected calls of the queue
\* table are finitely many.
Fairness ==
    /\ WF_vars(SetupAutoSync)
    /\ WF_vars(GoOffline)
    /\ WF_vars(GoOnline)
    /\ \A s \in Slots :
          /\ WF_vars(Dispatch(s))
          /\ WF_vars(StatusWrite(s))
          /\ WF_vars(UpdateWrite(s))
          /\ WF_vars(Receive(s))
          /\ WF_vars(Return(s))

SpecLive == InitOverlap /\ [][Next]_vars /\ Fairness

\* The dashboard is mounted more than once; no 'Sync Now'.
NextRemount == DeviceStep \/ SetupAutoSyncAgain
SpecRemount == InitOverlap /\ [][NextRemount]_vars

C2_WrittenInCreationOrder ==
    \A p \in DOMAIN applied :
        ~(applied[p].last < applied[p].max /\ applied[p].lastId < applied[p].maxId)

\* a sequence of queue records is in createdAt order, equal createdAt in key order
Chronological(ops) ==
    \A i, j \in 1..Len(ops) :
        i < j => \/ ops[i].createdAt < ops[j].createdAt
                 \/ ops[i].createdAt = ops[j].createdAt /\ ops[i].id < ops[j].id

\* C3: getPendingOperations returns every queued operation exactly once, as stored,
\* by createdAt ascending and, for equal createdAt, by ascending key; so is what
\* every drain pass read.
C3_ListPendingSorted ==
    LET ops == GetPendingOperations IN
    /\ Len(ops) = Cardinality(DOMAIN pendingOps)
    /\ { ops[i].id : i \in 1..Len(ops) } = DOMAIN pendingOps
    /\ \A i \in 1..Len(ops) :
          /\ ops[i].createdAt = pendingOps[ops[i].id].createdAt
          /\ ops[i].retryCount = pendingOps[ops[i].id].retryCount
          /\ ops[i].type = pendingOps[ops[i].id].type
    /\ Chronological(ops)
    /\ \A s \in Slots : Chronological(drain[s].snapshot)

\* C3 witness: the operation queued second carries the older createdAt, and a drain
\* pass read it first.
C3_OutOfEnqueueOrder ==
    /\ DOMAIN pendingOps = {1, 2}
    /\ pendingOps[2].createdAt < pendingOps[1].createdAt
    /\ \E s \in Slots :
          /\ Len(drain[s].snapshot) = 2
          /\ drain[s].snapshot[1].id = 2 /\ drain[s].snapshot[2].id = 1

\* C4 as stated: no operation is dispatched more than 3 times.
C4_AtMostThreeAttempts ==
    \A id \in DOMAIN dispatched : dispatched[id] <= MAX_RETRIES

\* C5 as stated: while a pass is used, nothing that leaves it used changes its usedAt
\* (a further update-status to used is refused and writes nothing).
C5_UsedAtKept ==
    [][\A p \in DOMAIN passes :
          (passes[p].status = "used" /\ passes'[p].status = "used")
              => passes'[p].usedAt = passes[p].usedAt]_vars

\* C6 as stated: no reconciliation write lands on a record whose updatedAt, at the
\* moment of the write, is greater than the operation's createdAt.
C6_NoWriteOntoNewer ==
    [][\A s \in Slots :
          (req[s].kind = "sync" /\ req[s].pc = "write" /\ req'[s].pc # "write")
              => passes[req[s].op.passId].updatedAt <= req[s].op.createdAt]_vars

\* C7 as stated: at most one drain pass is running on the device.
C7_OneDrainAtATime ==
    Cardinality({ s \in Slots : drain[s].pc \in {"sending", "waiting"} }) <= 1

\* C8: for every pass state the server reaches and every update-pass or update-status
\* operation on it, reconciling the operation twice leaves the pass (all fields) as
\* reconciling it once does.
C8_Idempotent ==
    \A p \in DOMAIN passes : \A op \in UpdatesOf(p) :
        ProcessOp(ProcessOp(passes[p], op), op) = ProcessOp(passes[p], op)

\* C8 witness: a batch delivered an operation again: its second operation carried the
\* createdAt the record already had from a reconciled write, and was applied.
C8_Redelivered ==
    \E p \in DOMAIN passes :
        /\ req[1].kind = "sync" /\ req[1].pc = "next" /\ req[1].processed = 2
        /\ req[1].verdict = "apply" /\ req[1].seen = req[1].stamp /\ req[1].stamp > 0
        /\ passes[p].updatedAt = req[1].stamp /\ passes[p].usedAt = req[1].stamp

\* C9: a batch of N operations in which exactly one operation k has no pass to apply
\* to (and no operation is a create) answers processed = N-1, failed = 1,
\* success = false and errors = [k's client-local id]; the handling of k writes
\* nothing, and no record is ever created for a missing pass.
C9_PartialFailure ==
    /\ [](/\ DOMAIN passes = StoredIds
          /\ \A s \in Slots :
                (req[s].kind = "sync" /\ req[s].pc = "done"
                    /\ Len(req[s].missing) = 1 /\ req[s].rejected = 0)
                 => /\ req[s].processed = req[s].n - 1
                    /\ req[s].failed = 1
                    /\ req[s].success = FALSE
                    /\ req[s].errors = <<EnvelopeId(req[s].missing[1])>>)
    /\ [][\A s \in Slots :
             Len(req'[s].missing) > Len(req[s].missing) => passes' = passes]_vars

\* C9 witness: a batch of two whose first operation had no pass and whose second was
\* applied has been answered.
C9_FirstOfTwoMissing ==
    /\ req[1].kind = "sync" /\ req[1].pc = "done" /\ req[1].n = 2
    /\ req[1].missing = <<1>> /\ req[1].rejected = 0 /\ req[1].verdict = "apply"

\* C10 as stated: when the first drain of a queue holding one update-status(used)
\* operation created at T1 > T0 = 0 has synced it against the pass as created, the
\* pass is used with usedAt = T1 and updatedAt = T1, and the operation is gone.
\* (Stated for a server whose clock is not behind the device's.)
C10_UsedAtIsCreatedAt ==
    \A s \in Slots :
        (/\ drain[s].pc = "done" /\ drain[s].synced = 1 /\ Len(drain[s].snapshot) = 1
         /\ nextId = 2 /\ dispatched[1] = 1
         /\ drain[s].snapshot[1].type = "update-status"
         /\ drain[s].snapshot[1].createdAt > 0
         /\ passes["P1"].updatedAt >= drain[s].snapshot[1].createdAt)
        => /\ passes["P1"].status = "used"
           /\ passes["P1"].usedAt = drain[s].snapshot[1].createdAt
           /\ passes["P1"].updatedAt = drain[s].snapshot[1].createdAt
           /\ 1 \notin DOMAIN pendingOps

\* C11 as stated: when the answer to a queued update-status operation arrives and the
\* server found the pass already used, with an updatedAt greater than the operation's
\* createdAt, the drain pass counts the operation as synced and removes it, records
\* no failure and no error, and the pass is left as it was.
C11_StaleSkipIsSuccess ==
    [][\A s \in Slots :
          LET op == drain[s].snapshot[drain[s].i] IN
          (/\ drain[s].pc = "waiting" /\ drain'[s].pc # "waiting"
           /\ op.type = "update-status"
           /\ req[s].verdict = "duplicate"
           /\ passes[op.passId].status = "used"
           /\ passes[op.passId].updatedAt > op.createdAt
           /\ faults' = 0)
          => /\ op.id \notin DOMAIN pendingOps'
             /\ drain'[s].synced = drain[s].synced + 1
             /\ drain'[s].failed = drain[s].failed
             /\ drain'[s].errors = drain[s].errors
             /\ passes' = passes]_vars

\* C12 as stated: when the answer to a dispatched operation is a terminal error (404,
\* the pass was not found; 409, duplicate check-in), the operation is removed from
\* the queue in that pass and its retry count is not stored again.
C12_TerminalErrorDropsOperation ==
    [][\A s \in Slots :
          LET op == drain[s].snapshot[drain[s].i] IN
          (/\ drain[s].pc = "waiting" /\ drain'[s].pc # "waiting"
           /\ req[s].code \in {404, 409}
           /\ faults' = 0)
          => op.id \notin DOMAIN pendingOps']_vars

\* C13 as stated: on the server a pass has a usedAt exactly when its status is used,
\* and usedAt changes only when the pass goes from unused to used (it is set) or from
\* used to unused (it is cleared): it is not overwritten while the pass stays used.
C13_UsedAtSetOncePerCheckIn ==
    /\ [](\A p \in DOMAIN passes :
             (passes[p].usedAt # NoDate) <=> (passes[p].status = "used"))
    /\ [][\A p \in DOMAIN passes :
             passes'[p].usedAt # passes[p].usedAt
                => \/ /\ passes[p].status = "unused" /\ passes'[p].status = "used"
                      /\ passes[p].usedAt = NoDate
                   \/ /\ passes[p].status = "used" /\ passes'[p].status = "unused"
                      /\ passes'[p].usedAt = NoDate]_vars

C15_OneDrainPerOnlineEvent ==
    [][/\ (~online /\ online' /\ listeners > 0)
             => Cardinality({ s \in Slots : drain[s].pc = "idle" /\ drain'[s].pc # "idle" }) = 1
       /\ \A s \in Slots :
             (drain[s].pc = "done" /\ drain[s].auto /\ drain'[s].pc = "idle")
                => (drain'[s].announced <=> drain[s].synced > 0)]_vars

\* C16: within a drain pass a failed dispatch, retryable or exhausted, does not stop
\* the pass: once the failure is recorded the loop goes to the next operation of the
\* snapshot, and a pass that was not ended by a rejected call of the queue table has
\* dispatched every operation of its snapshot and counted each as synced or failed.
\* A pass always ends by returning its result.
C16_FailureDoesNotStopPass ==
    /\ [](\A s \in Slots :
             /\ drain[s].threw => drain[s].pc = "done"
             /\ (drain[s].pc = "done" /\ ~drain[s].threw)
                   => /\ drain[s].synced + drain[s].failed = Len(drain[s].snapshot)
                      /\ Len(drain[s].errors) = drain[s].failed
                      /\ \A k \in 1..Len(drain[s].snapshot) :
                            dispatched[drain[s].snapshot[k].id] >= 1)
    /\ [][\A s \in Slots :
             (drain[s].pc \in {"sending", "waiting"}
                 /\ drain'[s].failed > drain[s].failed /\ ~drain'[s].threw)
             => /\ drain'[s].i = drain[s].i + 1
                /\ drain'[s].snapshot = drain[s].snapshot
                /\ drain'[s].pc = IF drain[s].i < Len(drain[s].snapshot)
                                  THEN "sending" ELSE "done"]_vars

\* C16 witness: a pass over two operations has returned; the first had used up its
\* retries and failed again, the second was dispatched after it and synced.
C16_SecondSyncedAfterExhaustedFirst ==
    \E s \in Slots :
        /\ drain[s].pc = "done" /\ ~drain[s].threw /\ Len(drain[s].snapshot) = 2
        /\ drain[s].failed = 1 /\ drain[s].synced = 1
        /\ drain[s].errors[1].operationId = drain[s].snapshot[1].id
        /\ ~drain[s].errors[1].retryable

\* C17 as stated: the result of every invocation of syncPendingOperations has
\* success = (failed = 0).
C17_SuccessIffNoFailure ==
    \A s \in Slots :
        drain[s].pc = "done" => (drain[s].success <=> drain[s].failed = 0)

\* C17: the result of an invocation of syncPendingOperations that was not ended by a
\* rejected call of the queue table has success = (failed = 0); one that was ended
\* by such a call has success = false, whatever its counts.
C17_SuccessIffNoFailureUnlessThrown ==
    \A s \in Slots :
        drain[s].pc = "done"
            => IF drain[s].threw THEN ~drain[s].success
               ELSE (drain[s].success <=> drain[s].failed = 0)

\* C17 witness: a pass over two operations returns with one synced and one failed.
C17_ReturnedOneOfEach ==
    \E s \in Slots :
        /\ drain[s].pc = "done" /\ ~drain[s].threw
        /\ drain[s].synced = 1 /\ drain[s].failed = 1 /\ ~drain[s].success

\* C18: when passes keep being started, every operation that is in the queue is
\* eventually out of it (sent, or dropped after its retries), whatever fails.
C18_EveryOperationLeavesQueue ==
    \A id \in 1..MaxOps :
        (id \in DOMAIN pendingOps) ~> (id \notin DOMAIN pendingOps)

\* C18 witness: an operation that never reached the server has left the queue by
\* exhaustion, after more than MAX_RETRIES failed dispatches.
C18_DroppedAfterRetries ==
    \E id \in DOMAIN dispatched :
        /\ dispatched[id] > MAX_RETRIES
        /\ id \notin DOMAIN pendingOps
        /\ passes["P1"] = NewPass

\* C19: a create-pass or create-event operation in a batch that passed validation is
\* always answered as a failure of that operation (failed + 1, its client-local id in errors, not counted
\* as processed), and its handling writes nothing: no pass is created or changed.
C19_CreatesAlwaysRejected ==
    /\ [](/\ DOMAIN passes = StoredIds
          /\ \A s \in Slots :
                (req[s].kind = "sync" /\ req[s].bad = 0)
                    => /\ req[s].rejected = req[s].creates
                       /\ req[s].failed >= req[s].creates
                       /\ req[s].processed + req[s].failed = req[s].i - 1
                             \/ req[s].pc = "write")
    /\ [][\A s \in Slots :
             req'[s].creates > req[s].creates
                => /\ passes' = passes
                   /\ req'[s].verdict = "reject"
                   /\ req'[s].failed = req[s].failed + 1
                   /\ req'[s].processed = req[s].processed
                   /\ req'[s].errors = Append(req[s].errors, EnvelopeId(req[s].i))]_vars

\* C19 witness: a batch of an update and a create operation has been answered: the
\* update was applied, the create was refused.
C19_CreateRefusedBesideUpdate ==
    /\ req[1].kind = "sync" /\ req[1].pc = "done" /\ req[1].n = 2
    /\ req[1].creates = 1 /\ req[1].failed = 1 /\ req[1].processed = 1
    /\ req[1].errors = <<EnvelopeId(2)>> /\ ~req[1].success
    /\ \E p \in DOMAIN passes : passes[p] # NewPass

\* the number of decimal digits of n
NumDigits(n) == CHOOSE k \in 1..(MaxSeqDigits + 1) : 10^(k - 1) <= n /\ n < 10^k

\* C20: generatePassId(prefix, n) is the prefix, a hyphen, and the decimal digits of
\* n padded on the left with zeros to 4 digits; a number of 5 digits or more keeps all
\* its digits; and no other sequence number gives the same id under that prefix.
C20_PassIdFormat ==
    (req[1].kind = "create-batch" /\ req[1].pc = "done")
        => LET id == req[1].passId
               k == Len(req[1].prefix)
               n == req[1].sequence IN
           /\ Len(id) = k + 1 + Max2(PassIdWidth, NumDigits(n))
           /\ SubSeq(id, 1, k) = req[1].prefix
           /\ id[k + 1] = "-"
           /\ \A i \in (k + 2)..Len(id) : \E d \in 1..10 : id[i] = DigitChars[d]
           /\ \A i \in (k + 2)..(Len(id) - NumDigits(n)) : id[i] = "0"
           /\ ParseInt(SubSeq(id, k + 2, Len(id))) = n
           /\ \A m \in SeqNumbers : m # n => GeneratePassId(req[1].prefix, m) # id

\* C20 witness: the id of sequence number 10000 under VIS has been made: VIS-10000.
C20_FiveDigitSequence ==
    /\ req[1].kind = "create-batch" /\ req[1].pc = "done"
    /\ req[1].sequence = 10000
    /\ req[1].passId = <<"V", "I", "S", "-", "1", "0", "0", "0", "0">>

\* ------------------------------------------------------------------ C21
\* the ids of the operations a pass has read are all different
SnapshotIdsDistinct(d) ==
    \A j, k \in 1..Len(d.snapshot) : d.snapshot[j].id = d.snapshot[k].id => j = k

\* C21: when a pass has caught the failure of an operation whose retryCount is below
\* MAX_RETRIES (and no call of the queue table was rejected), the operation is in the
\* queue afterwards with its stored retryCount one higher than it was stored before,
\* and the pass has moved on to the next operation of its snapshot, in which no id
\* occurs twice.
C21_FailureStoresRetryCountPlusOne ==
    /\ [](\A s \in Slots : SnapshotIdsDistinct(drain[s]))
    /\ [][\A s \in Slots :
            (/\ drain[s].pc \in {"sending", "waiting"}
             /\ drain'[s].failed = drain[s].failed + 1
             /\ ~drain'[s].threw
             /\ faults' = 0
             /\ Retryable(drain[s].snapshot[drain[s].i].retryCount))
            => LET id == drain[s].snapshot[drain[s].i].id IN
               /\ id \in DOMAIN pendingOps /\ id \in DOMAIN pendingOps'
               /\ pendingOps'[id].retryCount = pendingOps[id].retryCount + 1
               /\ drain'[s].i = drain[s].i + 1]_vars

\* ------------------------------------------------------------------ C22
\* C22: when /api/sync skips an operation because the stored pass is newer than the
\* operation, no field of any stored pass changes, and the operation is counted in
\* processed and not in failed or errors.
C22_SkipChangesNothing ==
    [][\A s \in Slots :
         (/\ req[s].kind = "sync" /\ req[s].pc = "next"
          /\ req'[s].i = req[s].i + 1
          /\ req'[s].verdict = "skip")
         => /\ passes' = passes
            /\ req'[s].seen > req'[s].stamp
            /\ req'[s].processed = req[s].processed + 1
            /\ req'[s].failed = req[s].failed
            /\ req'[s].errors = req[s].errors]_vars

\* C22 witness: a batch whose two operations were both skipped has been answered
\* with processed 2, failed 0, and the target pass is as it was stored before.
C22_BatchOfTwoSkipped ==
    \E s \in Slots :
      /\ req[s].kind = "sync" /\ req[s].pc = "done" /\ req[s].n = 2
      /\ req[s].verdict = "skip" /\ req[s].seen > req[s].stamp
      /\ req[s].processed = 2 /\ req[s].failed = 0 /\ req[s].success
      /\ \E pid \in DOMAIN passes : passes[pid].updatedAt > 0

\* ------------------------------------------------------------------ C23
\* C23: a pass that starts on an empty queue (and whose read of the queue is not
\* rejected) is finished at once with success = true, synced = 0, failed = 0 and no
\* errors; starting it sends no request and changes nothing in the queue, and all
\* that follows in the pass is its return.
C23_EmptyQueueReturnsAtOnce ==
    [][\A s \in Slots :
         /\ (/\ drain[s].pc = "idle" /\ drain'[s].pc \notin {"idle", "refused"}
             /\ ~drain'[s].threw
             /\ DOMAIN pendingOps = {})
            => /\ drain'[s] = [IdleDrain EXCEPT !.auto = drain'[s].auto, !.pc = "done"]
               /\ pendingOps' = pendingOps /\ nextId' = nextId
               /\ req' = req /\ dispatched' = dispatched /\ passes' = passes
         /\ (/\ drain[s].pc = "done" /\ drain[s].snapshot = <<>> /\ ~drain[s].threw
             /\ drain'[s] # drain[s])
            => /\ drain'[s].pc = "idle"
               /\ pendingOps' = pendingOps /\ req' = req /\ dispatched' = dispatched]_vars

\* C23 witness: after an operation was queued and synced, a later pass has found
\* the queue empty and is about to return the all-success result.
C23_PassOnEmptiedQueue ==
    \E s \in Slots :
      /\ drain[s].pc = "done" /\ drain[s].snapshot = <<>> /\ ~drain[s].threw
      /\ drain[s].success /\ drain[s].synced = 0 /\ drain[s].failed = 0
      /\ drain[s].errors = <<>>
      /\ DOMAIN pendingOps = {} /\ nextId > 1
      /\ \A t \in Slots : req[t].pc = "idle"

SnapshotIds(d) == { d.snapshot[j].id : j \in 1..Len(d.snapshot) }

\* a pass that has read the queue and has not returned yet: of the passes that ended
\* in the outer catch, the one whose read was rejected is the one with no failure
\* counted
HoldsSnapshot(d) ==
    d.pc \in {"sending", "waiting", "done"} /\ ~(d.threw /\ d.failed = 0)

C29_RetryCountBoundedMonotone ==
    /\ [](\A k \in DOMAIN pendingOps : pendingOps[k].retryCount \in 0..MAX_RETRIES)
    /\ [][\A k \in DOMAIN pendingOps' :
            IF k \in DOMAIN pendingOps
            THEN pendingOps'[k].retryCount >= pendingOps[k].retryCount
            ELSE pendingOps'[k].retryCount = 0]_vars

\* ------------------------------------------------------------------ C26
\* C26: of the mark-as-used requests made for one unused pass only one succeeds and
\* writes usedAt: a mark-as-used request that comes to its write when the pass is
\* already used writes nothing and is answered 409.
C26_OneCheckInSucceeds ==
    [][\A s \in Slots :
         (/\ req[s].kind = "status" /\ req[s].pc = "write"
          /\ req[s].op.payload = "used"
          /\ req'[s].pc = "done"
          /\ req[s].op.passId \in DOMAIN passes
          /\ passes[req[s].op.passId].status = "used")
         => /\ passes' = passes
            /\ req'[s].code = 409]_vars

\* ------------------------------------------------------------------ C30
\* C30: a /api/sync request whose body holds an envelope that is not well formed
\* (unknown type, or id, type, createdAt or retryCount missing) is answered 400 at
\* once: the step that receives it changes no pass, and the request never handles
\* an operation.
C30_MalformedBatchRejectedWhole ==
    /\ [](\A s \in Slots :
            (req[s].kind = "sync" /\ req[s].bad > 0)
            => /\ req[s].pc = "done" /\ req[s].code = 400
               /\ req[s].processed = 0 /\ req[s].failed = 0 /\ req[s].errors = <<>>
               /\ req[s].verdict = "none")
    /\ [][\A s \in Slots :
            (req'[s].kind = "sync" /\ req'[s].bad > 0 /\ req[s].pc = "idle")
            => passes' = passes]_vars

\* C30 witness: a batch of two envelopes whose second envelope is not well formed
\* has been answered 400, and both stored passes are as they were created.
C30_SecondEnvelopeMalformed ==
    \E s \in Slots :
      /\ req[s].kind = "sync" /\ req[s].pc = "done" /\ req[s].code = 400
      /\ req[s].n = 2 /\ req[s].bad = 2 /\ req[s].processed = 0
      /\ \A pid \in DOMAIN passes : passes[pid] = NewPass

\* ------------------------------------------------------------------ C25
\* the highest sequence number among the ids of `ids` under `prefix`, 0 if none
MaxSequence(ids, prefix) ==
    LET seqs == { ParseInt(SequencePart(id)) : id \in { x \in ids : MatchesPrefix(x, prefix) } } IN
    IF seqs = {} THEN 0 ELSE CHOOSE m \in seqs : \A n \in seqs : n <= m

\* C25: a call of generatePassBatch(prefix, count) does not throw, and what it adds
\* to the store is exactly the count passes with the sequence numbers max+1 to
\* max+count, where max is the highest sequence number stored for the prefix
\* before the call; each is new and unused.
C25_BatchContinuesAfterHighestNumber ==
    (req[1].kind = "batch" /\ req[1].pc = "done")
    => LET r == req[1]
           max == MaxSequence(r.before, r.prefix)
           expected == { GeneratePassId(r.prefix, max + j) : j \in 1..r.count } IN
       /\ ~r.threw
       /\ expected \cap r.before = {}
       /\ DOMAIN passes = r.before \cup expected
       /\ \A id \in expected : passes[id].status = "unused"

\* ------------------------------------------------------------------ C24
\* the pass in the cache shows what the operation does
Reflects(pass, op) ==
    IF op.type = "update-status" THEN pass.status = op.payload
    ELSE pass.visitor = op.payload

\* C24: when the operation of an offline mutation is in the queue, the pass cache
\* already shows the mutation: there is no state in which a handler of the page has
\* queued its operation while the cached pass is still without it.
C24_CacheUpdatedBeforeQueued ==
    \A k \in DOMAIN pendingOps :
       (page.pc = "caching" /\ page.id = k)
       => Reflects(cache[pendingOps[k].passId], pendingOps[k])
====
